---- MODULE Spec2Model ----
(***************************************************************************)
(* Book_Management: the catalogue tables (Category, Author, Book, the      *)
(* Book.authors many-to-many table, the admin LogEntry table) and the      *)
(* operations of books/models.py, books/admin.py and books/views.py that   *)
(* create and delete their rows.                                           *)
(*                                                                         *)
(* Operations the code runs inside `with transaction.atomic()` (Book.delete*)
(* and Book.bulk_delete) are sequences of steps that no other request      *)
(* interleaves with and that a failure rolls back to the savepoint.        *)
(* CategoryAdmin.delete_model and CategoryAdmin.delete_selected open no    *)
(* transaction: their check and their delete are two steps, and the        *)
(* requests of other clients may run between them.                         *)
(***************************************************************************)
EXTENDS Integers, FiniteSets, Sequences, Bags, TLC

\* ---- bounds ----
\* the number of Category, Author and Book rows created in a run
MaxRows == 4
\* the number of LogEntry rows there are at a time
MaxLog == 2
\* the number of User rows created in a run
MaxUsers == 2

CategoryIds == 1..MaxRows
AuthorIds == 1..MaxRows
BookIds == 1..MaxRows

\* content types of the three catalogue models
ContentTypes == {"Category", "Author", "Book"}

IdsOf(t) == CASE t = "Category" -> CategoryIds
              [] t = "Author" -> AuthorIds
              [] t = "Book" -> BookIds

\* a LogEntry row is keyed by (content_type, object_id)
LogKeys == UNION {{<<t, i>> : i \in IdsOf(t)} : t \in ContentTypes}

None == 0

VARIABLES
  categories,    \* Category table: the ids of its rows
  authors,       \* Author table: the ids of its rows
  books,         \* Book table: id -> category_id (the PROTECT foreign key)
  book_authors,  \* Book.authors through table: pairs <<book_id, author_id>>
  log,           \* LogEntry table: the bag of the (content_type, object_id) of its rows
  seq,           \* the auto-increment sequence of each table
  op,            \* the multi-step operation in progress, with its position
  resp,          \* the outcome of the request being answered
  category_rows, \* Category table with its columns: id -> [name]
  author_rows,   \* Author table with its columns: id -> [email]
  book_rows,     \* Book table with its columns: id -> [title, isbn, price,
                 \* stock_quantity, category, authors]
  row_seq,       \* the auto-increment sequence of each table with columns
  users          \* User table: id -> [username, role, password]

dbvars == <<categories, authors, books, book_authors, log, seq>>
\* the tables with their columns, which the validation of the REST API reads
\* and writes, and the User table; the deletion operations below work on the
\* keys and relations of dbvars alone
rowvars == <<category_rows, author_rows, book_rows, row_seq>>
vars == <<categories, authors, books, book_authors, log, seq, op, resp,
          category_rows, author_rows, book_rows, row_seq, users>>

Idle == [kind |-> "idle"]
Pending == [op |-> "pending"]

\* the rows of the tables, as one value (what a savepoint protects)
Tables == [categories |-> categories, authors |-> authors, books |-> books,
           book_authors |-> book_authors, log |-> log]

\* LogEntry.objects.count()
LogTotal == BagCardinality(log)

\* LogEntry.objects.filter(content_type=t, object_id=str(i)).count()
LogCount(l, t, i) == CopiesIn(<<t, i>>, l)

\* the rows created so far, in the three tables together
RowsCreated == (seq["Category"] - 1) + (seq["Author"] - 1) + (seq["Book"] - 1)

\* the ids a request may name: those handed out so far, and the next one
\* (an id never handed out)
Pks(t) == {i \in IdsOf(t) : i <= seq[t]}

Max(S) == CHOOSE x \in S : \A y \in S : y <= x

\* obj.books: the books whose category is obj (related_name='books')
BooksOf(c) == {b \in DOMAIN books : books[b] = c}

\* book.authors: the authors linked to the book
AuthorsOfBook(b) == {l[2] : l \in {m \in book_authors : m[1] = b}}

Exists(t, i) == CASE t = "Category" -> i \in categories
                  [] t = "Author" -> i \in authors
                  [] t = "Book" -> i \in DOMAIN books

\* CategoryAdmin.delete_model and delete_selected open no transaction
\* (admin.py imports transaction and never uses it): between their check and
\* their delete the requests of other clients run. The ones modelled there are
\* those that write what the deletion reads or writes (Book.category, the
\* Category rows): POST book and DELETE category; every other request
\* commutes with the two steps and is taken before or after them.
CanInterleave ==
  /\ op.kind \in {"idle", "CategoryAdmin.delete_model", "CategoryAdmin.delete_selected"}
  /\ resp = Pending

\* no operation is in progress and the last outcome has been delivered
CanStart == op = Idle /\ resp = Pending

Init ==
  /\ categories = {}
  /\ authors = {}
  /\ books = <<>>
  /\ book_authors = {}
  /\ log = EmptyBag
  /\ seq = [t \in ContentTypes |-> 1]
  /\ op = Idle
  /\ resp = Pending
  /\ category_rows = <<>>
  /\ author_rows = <<>>
  /\ book_rows = <<>>
  /\ row_seq = [t \in ContentTypes |-> 1]
  /\ users = <<>>

\* ---- creation (ListCreateAPIView.post) ----

\* POST /api/categories/
CategoryListCreateView_post ==
  /\ CanStart
  /\ RowsCreated < MaxRows
  /\ categories' = categories \cup {seq["Category"]}
  /\ seq' = [seq EXCEPT !["Category"] = @ + 1]
  /\ UNCHANGED <<authors, books, book_authors, log, op, resp>>
  /\ UNCHANGED <<rowvars, users>>

\* POST /api/authors/
AuthorListCreateView_post ==
  /\ CanStart
  /\ RowsCreated < MaxRows
  /\ authors' = authors \cup {seq["Author"]}
  /\ seq' = [seq EXCEPT !["Author"] = @ + 1]
  /\ UNCHANGED <<categories, books, book_authors, log, op, resp>>
  /\ UNCHANGED <<rowvars, users>>

\* BookSerializer: the category must be an existing Category, and the authors
\* a non-empty list of existing Authors
BookSerializer_is_valid(category, auths) ==
  /\ category \in categories
  /\ auths # {}
  /\ auths \subseteq authors

\* POST /api/books/ with category and authors taken from the request
BookListCreateView_post(category, auths) ==
  /\ CanInterleave
  /\ RowsCreated < MaxRows
  /\ IF BookSerializer_is_valid(category, auths)
     THEN /\ books' = [b \in DOMAIN books \cup {seq["Book"]} |->
                         IF b = seq["Book"] THEN category ELSE books[b]]
          /\ book_authors' = book_authors \cup {<<seq["Book"], a>> : a \in auths}
          /\ seq' = [seq EXCEPT !["Book"] = @ + 1]
     ELSE UNCHANGED <<books, book_authors, seq>>
  /\ UNCHANGED <<categories, authors, log, op, resp>>
  /\ UNCHANGED <<rowvars, users>>

\* the admin site records a LogEntry for an addition or change it made to an
\* existing object
ModelAdmin_log(t, i) ==
  /\ CanStart
  /\ Exists(t, i)
  /\ LogTotal < MaxLog
  /\ log' = log (+) SetToBag({<<t, i>>})
  /\ UNCHANGED <<categories, authors, books, book_authors, seq, op, resp>>
  /\ UNCHANGED <<rowvars, users>>

\* ---- REST deletion (RetrieveUpdateDestroyAPIView.delete) ----

\* a view that destroys without looking the row up
get_object_unchecked(rows, pk) == TRUE

\* get_object(): the row with this pk in the view's queryset, or Http404
get_object_found(rows, pk) == pk \in rows

\* the foreign key with on_delete=DO_NOTHING: nothing is protected
Protected_do_nothing(ids) == {}

\* on_delete=PROTECT of Book.category: the categories among ids that a Book
\* references; Category.delete and QuerySet.delete raise ProtectedError when
\* there is one, and delete nothing
Protected(ids) == {c \in ids : \E b \in DOMAIN books : books[b] = c}

\* exceptions: an APIException of the REST framework carries its status code
\* and its detail (here the keys of the detail); any other exception, such
\* as django.db.models.ProtectedError, is none of them
ProtectedError == [api |-> FALSE, class |-> "ProtectedError"]
APIException(status_code, detail) ==
  [api |-> TRUE, class |-> "APIException", status_code |-> status_code, detail |-> detail]

\* rest_framework.views.exception_handler, as custom_exception_handler calls
\* it: a response for an APIException, None for any other exception
exception_handler(exc) ==
  IF exc.api
  THEN [none |-> FALSE, status_code |-> exc.status_code, data |-> exc.detail]
  ELSE [none |-> TRUE]

\* core.exceptions.custom_exception_handler: the response sent for an
\* exception that a view raised
custom_exception_handler(exc) ==
  LET response == exception_handler(exc) IN
  IF response.none
  THEN [status_code |-> 500,
        data |-> [success |-> FALSE, message |-> exc.class, data |-> None]]
  ELSE [status_code |-> response.status_code,
        data |-> [success |-> FALSE,
                  message |-> IF response.status_code = 400
                              THEN "Validation error" ELSE "An error occurred",
                  errors |-> response.data]]

\* DELETE /api/categories/<pk>/
CategoryDetailView_delete(pk) ==
  /\ CanInterleave
  /\ IF ~get_object_found(categories, pk)
     THEN /\ resp' = [op |-> "DELETE", type |-> "Category", id |-> pk, status |-> 404]
          /\ UNCHANGED categories
     ELSE IF Protected({pk}) # {}
     THEN /\ resp' = [op |-> "DELETE", type |-> "Category", id |-> pk,
                      status |-> custom_exception_handler(ProtectedError).status_code]
          /\ UNCHANGED categories
     ELSE /\ categories' = categories \ {pk}
          /\ resp' = [op |-> "DELETE", type |-> "Category", id |-> pk, status |-> 204]
  /\ UNCHANGED <<authors, books, book_authors, log, seq, op>>
  /\ UNCHANGED <<rowvars, users>>

\* DELETE /api/authors/<pk>/ : the rows of the through table go with the
\* author (cascade), no guard and no LogEntry clean-up
AuthorDetailView_delete(pk) ==
  /\ CanStart
  /\ IF ~get_object_found(authors, pk)
     THEN /\ resp' = [op |-> "DELETE", type |-> "Author", id |-> pk, status |-> 404]
          /\ UNCHANGED <<authors, book_authors>>
     ELSE /\ authors' = authors \ {pk}
          /\ book_authors' = {l \in book_authors : l[2] # pk}
          /\ resp' = [op |-> "DELETE", type |-> "Author", id |-> pk, status |-> 204]
  /\ UNCHANGED <<categories, books, log, seq, op>>
  /\ UNCHANGED <<rowvars, users>>

\* ---- Book.delete ----

\* the steps of Book.delete outside an atomic block: the work done stays
delete_no_atomic(savepoint, work, failed) == work

\* `with transaction.atomic():` of Book.delete: an exception inside the block
\* rolls the tables back to the savepoint, a normal exit keeps the work
delete_atomic_exit(savepoint, work, failed) == IF failed THEN savepoint ELSE work

SetTables(t) ==
  /\ categories' = t.categories
  /\ authors' = t.authors
  /\ books' = t.books
  /\ book_authors' = t.book_authors
  /\ log' = t.log

\* a delete that goes to super().delete() at once
Book_delete_enter_at_super_delete(pk) ==
  op' = [kind |-> "Book.delete", pc |-> "super_delete", pk |-> pk, savepoint |-> Tables]

\* self.delete() is entered: the atomic block opens
Book_delete_enter(pk) ==
  op' = [kind |-> "Book.delete", pc |-> "log_entries", pk |-> pk, savepoint |-> Tables]

\* DELETE /api/books/<pk>/ : 404 for a missing row, else instance.delete()
BookDetailView_delete(pk) ==
  /\ CanStart
  /\ IF ~get_object_found(DOMAIN books, pk)
     THEN /\ resp' = [op |-> "DELETE", type |-> "Book", id |-> pk, status |-> 404]
          /\ UNCHANGED op
     ELSE /\ Book_delete_enter(pk)
          /\ resp' = Pending
  /\ UNCHANGED dbvars
  /\ UNCHANGED <<rowvars, users>>

\* BookAdmin.delete_model: obj.delete()
BookAdmin_delete_model(pk) ==
  /\ CanStart
  /\ pk \in DOMAIN books
  /\ Book_delete_enter(pk)
  /\ resp' = Pending
  /\ UNCHANGED dbvars
  /\ UNCHANGED <<rowvars, users>>

\* .first().delete() in place of .delete(): one row goes
LogEntry_delete_first(l, content_type, pk) == l (-) SetToBag({<<content_type, pk>>})

\* a filter whose object_id matches no row (pk not converted to str)
LogEntry_filter_no_match(l, content_type, pk) == l

\* a filter on object_id alone, whatever the content type
LogEntry_filter_object_id(l, content_type, pk) ==
  [k \in {j \in DOMAIN l : j[2] # pk} |-> l[k]]

\* LogEntry.objects.filter(content_type=.., object_id=str(pk)).delete()
LogEntry_filter_delete(l, content_type, pk) ==
  [k \in DOMAIN l \ {<<content_type, pk>>} |-> l[k]]

\* book.authors.clear()
authors_clear(links, pk) == {l \in links : l[1] # pk}

Book_delete_log_entries ==
  /\ op.kind = "Book.delete" /\ op.pc = "log_entries"
  /\ log' = LogEntry_filter_delete(log, "Book", op.pk)
  /\ op' = [op EXCEPT !.pc = "authors_clear"]
  /\ UNCHANGED <<categories, authors, books, book_authors, seq, resp>>
  /\ UNCHANGED <<rowvars, users>>

Book_delete_authors_clear ==
  /\ op.kind = "Book.delete" /\ op.pc = "authors_clear"
  /\ book_authors' = authors_clear(book_authors, op.pk)
  /\ op' = [op EXCEPT !.pc = "super_delete"]
  /\ UNCHANGED <<categories, authors, books, log, seq, resp>>
  /\ UNCHANGED <<rowvars, users>>

\* Model.delete of the given books: pre_delete runs handle_book_deletion
\* (instance.authors.clear()), then the through rows and the Book rows go
Model_delete_books(pks) ==
  /\ book_authors' = {l \in book_authors : l[1] \notin pks}
  /\ books' = [b \in DOMAIN books \ pks |-> books[b]]

Book_delete_super_delete ==
  /\ op.kind = "Book.delete" /\ op.pc = "super_delete"
  /\ Model_delete_books({op.pk})
  /\ op' = [op EXCEPT !.pc = "exit"]
  /\ UNCHANGED <<categories, authors, log, seq, resp>>
  /\ UNCHANGED <<rowvars, users>>

\* the atomic block is left normally: commit
Book_delete_exit ==
  /\ op.kind = "Book.delete" /\ op.pc = "exit"
  /\ SetTables(delete_atomic_exit(op.savepoint, Tables, FALSE))
  /\ resp' = [op |-> "Book.delete", id |-> op.pk, status |-> 204, at |-> op.pc]
  /\ op' = Idle
  /\ UNCHANGED seq
  /\ UNCHANGED <<rowvars, users>>

\* an exception (the store fails) at any point inside the atomic block
Book_delete_fail ==
  /\ op.kind = "Book.delete"
  /\ SetTables(delete_atomic_exit(op.savepoint, Tables, TRUE))
  /\ resp' = [op |-> "Book.delete", id |-> op.pk, status |-> 500, at |-> op.pc]
  /\ op' = Idle
  /\ UNCHANGED seq
  /\ UNCHANGED <<rowvars, users>>

\* a delete that leaves the LogEntry rows of the book
Book_delete_result_keeps_log(t, pk) ==
  [t EXCEPT !.book_authors = authors_clear(t.book_authors, pk),
            !.books = [b \in DOMAIN t.books \ {pk} |-> t.books[b]]]

\* the tables that Book.delete of book pk makes of the tables t when it
\* commits: without the LogEntry rows of the book, its links and its row
Book_delete_result(t, pk) ==
  [t EXCEPT !.log = LogEntry_filter_delete(t.log, "Book", pk),
            !.book_authors = authors_clear(t.book_authors, pk),
            !.books = [b \in DOMAIN t.books \ {pk} |-> t.books[b]]]

\* obj.delete() for each book of a list, one after the other
RECURSIVE Book_delete_each(_, _)
Book_delete_each(t, order) ==
  IF order = <<>> THEN t
  ELSE Book_delete_each(Book_delete_result(t, Head(order)), Tail(order))

\* ---- Book.bulk_delete ----

\* the steps of Book.bulk_delete outside an atomic block
bulk_delete_no_atomic(savepoint, work, failed) == work

\* `with transaction.atomic():` of Book.bulk_delete
bulk_delete_atomic_exit(savepoint, work, failed) == IF failed THEN savepoint ELSE work

\* Meta.ordering = ['-created_at']: the loop takes the newest book first
queryset_first(pks) == Max(pks)

\* BookAdmin.delete_selected: Book.bulk_delete(queryset), the queryset being
\* the selected rows that exist
BookAdmin_delete_selected(queryset) ==
  /\ CanStart
  /\ queryset # {}
  /\ queryset \subseteq DOMAIN books
  /\ op' = [kind |-> "Book.bulk_delete", pc |-> "log_entries", queryset |-> queryset,
            todo |-> queryset, savepoint |-> Tables]
  /\ resp' = Pending
  /\ UNCHANGED dbvars
  /\ UNCHANGED <<rowvars, users>>

\* loop body, first statement: the LogEntry rows of obj
bulk_delete_log_entries ==
  /\ op.kind = "Book.bulk_delete" /\ op.pc = "log_entries"
  /\ log' = LogEntry_filter_delete(log, "Book", queryset_first(op.todo))
  /\ op' = [op EXCEPT !.pc = "authors_clear"]
  /\ UNCHANGED <<categories, authors, books, book_authors, seq, resp>>
  /\ UNCHANGED <<rowvars, users>>

\* loop body, second statement: obj.authors.clear(); then the next obj, or
\* the end of the loop
bulk_delete_authors_clear ==
  /\ op.kind = "Book.bulk_delete" /\ op.pc = "authors_clear"
  /\ book_authors' = authors_clear(book_authors, queryset_first(op.todo))
  /\ LET rest == op.todo \ {queryset_first(op.todo)}
     IN op' = [op EXCEPT !.todo = rest,
                         !.pc = IF rest = {} THEN "queryset_delete" ELSE "log_entries"]
  /\ UNCHANGED <<categories, authors, books, log, seq, resp>>
  /\ UNCHANGED <<rowvars, users>>

\* queryset.delete()
bulk_delete_queryset_delete ==
  /\ op.kind = "Book.bulk_delete" /\ op.pc = "queryset_delete"
  /\ Model_delete_books(op.queryset)
  /\ op' = [op EXCEPT !.pc = "exit"]
  /\ UNCHANGED <<categories, authors, log, seq, resp>>
  /\ UNCHANGED <<rowvars, users>>

bulk_delete_exit ==
  /\ op.kind = "Book.bulk_delete" /\ op.pc = "exit"
  /\ SetTables(bulk_delete_atomic_exit(op.savepoint, Tables, FALSE))
  /\ resp' = [op |-> "Book.bulk_delete", ids |-> op.queryset,
              status |-> 200, at |-> op.pc]
  /\ op' = Idle
  /\ UNCHANGED seq
  /\ UNCHANGED <<rowvars, users>>

bulk_delete_fail ==
  /\ op.kind = "Book.bulk_delete"
  /\ SetTables(bulk_delete_atomic_exit(op.savepoint, Tables, TRUE))
  /\ resp' = [op |-> "Book.bulk_delete", ids |-> op.queryset,
              status |-> 500, at |-> op.pc]
  /\ op' = Idle
  /\ UNCHANGED seq
  /\ UNCHANGED <<rowvars, users>>

\* ---- CategoryAdmin ----

\* the ModelAdmin default: deletion allowed whatever the books
has_delete_permission_always(obj) == TRUE

\* has_delete_permission(request, obj): obj.books.count() == 0, True without obj
has_delete_permission(obj) ==
  IF obj # None THEN Cardinality(BooksOf(obj)) = 0 ELSE TRUE

\* the admin site asks the guard about a category, or about none
CategoryAdmin_has_delete_permission(obj) ==
  /\ CanStart
  /\ obj \in categories \cup {None}
  /\ resp' = [op |-> "has_delete_permission", id |-> obj,
              allowed |-> has_delete_permission(obj)]
  /\ UNCHANGED <<dbvars, op>>
  /\ UNCHANGED <<rowvars, users>>

\* a report that only says whether books exist (exists() in place of count())
delete_model_report_exists(obj) ==
  {[category |-> obj, book_count |-> IF BooksOf(obj) # {} THEN 1 ELSE 0]}

\* delete_model, the guard: obj.books.exists() -> message_user(.., ERROR) with
\* obj.books.count(), and return
delete_model_report(obj) == {[category |-> obj, book_count |-> Cardinality(BooksOf(obj))]}

CategoryAdmin_delete_model(obj) ==
  /\ CanStart
  /\ obj \in categories
  /\ IF BooksOf(obj) # {}
     THEN /\ resp' = [op |-> "CategoryAdmin.delete_model", status |-> 200,
                      blocked |-> delete_model_report(obj), deleted |-> {}]
          /\ UNCHANGED op
     ELSE /\ op' = [kind |-> "CategoryAdmin.delete_model", pc |-> "delete",
                    deletable |-> {obj}, undeletable |-> {}]
          /\ resp' = Pending
  /\ UNCHANGED dbvars
  /\ UNCHANGED <<rowvars, users>>

\* delete_model, obj.delete(): ProtectedError if a book references obj now
CategoryAdmin_delete_model_delete ==
  /\ op.kind = "CategoryAdmin.delete_model" /\ op.pc = "delete"
  /\ resp = Pending
  /\ IF Protected(op.deletable \cap categories) # {}
     THEN /\ resp' = [op |-> "CategoryAdmin.delete_model", status |-> 500,
                      blocked |-> {}, deleted |-> {}]
          /\ UNCHANGED categories
     ELSE /\ categories' = categories \ op.deletable
          /\ resp' = [op |-> "CategoryAdmin.delete_model", status |-> 200,
                      blocked |-> {}, deleted |-> op.deletable]
  /\ op' = Idle
  /\ UNCHANGED <<authors, books, book_authors, log, seq>>
  /\ UNCHANGED <<rowvars, users>>

\* delete_selected, the ERROR message: "Could not delete the following
\* categories because they have books: 'name', ..." (the names, no count)
delete_selected_report(undeletable) == {[category |-> obj] : obj \in undeletable}

\* delete_selected, the loop: the queryset split by obj.books.exists()
CategoryAdmin_delete_selected(queryset) ==
  /\ CanStart
  /\ queryset # {}
  /\ queryset \subseteq categories
  /\ op' = [kind |-> "CategoryAdmin.delete_selected", pc |-> "delete",
            deletable |-> {obj \in queryset : BooksOf(obj) = {}},
            undeletable |-> {obj \in queryset : BooksOf(obj) # {}}]
  /\ resp' = Pending
  /\ UNCHANGED dbvars
  /\ UNCHANGED <<rowvars, users>>

\* delete_selected, Category.objects.filter(id__in=deletable).delete() and the
\* messages; a ProtectedError deletes nothing and no message is sent
CategoryAdmin_delete_selected_delete ==
  /\ op.kind = "CategoryAdmin.delete_selected" /\ op.pc = "delete"
  /\ resp = Pending
  /\ IF Protected(op.deletable \cap categories) # {}
     THEN /\ resp' = [op |-> "CategoryAdmin.delete_selected", status |-> 500,
                      blocked |-> {}, deleted |-> {}]
          /\ UNCHANGED categories
     ELSE /\ categories' = categories \ op.deletable
          /\ resp' = [op |-> "CategoryAdmin.delete_selected", status |-> 200,
                      blocked |-> delete_selected_report(op.undeletable),
                      deleted |-> op.deletable]
  /\ op' = Idle
  /\ UNCHANGED <<authors, books, book_authors, log, seq>>
  /\ UNCHANGED <<rowvars, users>>

\* the outcome of a request goes back to its client (the HTTP response, the
\* admin messages); the next request is taken after that, which is why every
\* request of Next waits for resp = Pending
Respond ==
  /\ resp # Pending
  /\ resp' = Pending
  /\ UNCHANGED <<dbvars, op>>
  /\ UNCHANGED <<rowvars, users>>

Next ==
  \/ Respond
  \/ (resp = Pending /\ \E q \in SUBSET Pks("Book") : BookAdmin_delete_selected(q))
  \/ bulk_delete_log_entries
  \/ bulk_delete_authors_clear
  \/ bulk_delete_queryset_delete
  \/ bulk_delete_exit
  \/ bulk_delete_fail
  \/ (resp = Pending /\ \E obj \in Pks("Category") \cup {None} : CategoryAdmin_has_delete_permission(obj))
  \/ (resp = Pending /\ \E obj \in Pks("Category") : CategoryAdmin_delete_model(obj))
  \/ CategoryAdmin_delete_model_delete
  \/ (resp = Pending /\ \E q \in SUBSET Pks("Category") : CategoryAdmin_delete_selected(q))
  \/ CategoryAdmin_delete_selected_delete
  \/ (resp = Pending /\ \E pk \in Pks("Category") : CategoryDetailView_delete(pk))
  \/ (resp = Pending /\ \E pk \in Pks("Author") : AuthorDetailView_delete(pk))
  \/ (resp = Pending /\ \E pk \in Pks("Book") : BookDetailView_delete(pk))
  \/ (resp = Pending /\ \E pk \in Pks("Book") : BookAdmin_delete_model(pk))
  \/ Book_delete_log_entries
  \/ Book_delete_authors_clear
  \/ Book_delete_super_delete
  \/ Book_delete_exit
  \/ Book_delete_fail
  \/ CategoryListCreateView_post
  \/ AuthorListCreateView_post
  \/ (resp = Pending /\ \E c \in Pks("Category"), as \in SUBSET Pks("Author") : BookListCreateView_post(c, as))
  \/ (resp = Pending /\ \E t \in ContentTypes : \E i \in Pks(t) : ModelAdmin_log(t, i))

Spec == Init /\ [][Next]_vars

\* ---- the REST API with the columns the serializers validate ----
\* Strings are sequences of one-character strings.

UpperCase == [a |-> "A", b |-> "B", c |-> "C", x |-> "X", y |-> "Y", z |-> "Z"]
IsLower(ch) == ch \in DOMAIN UpperCase
IsUpper(ch) == \E l \in DOMAIN UpperCase : UpperCase[l] = ch
IsLetter(ch) == IsLower(ch) \/ IsUpper(ch)
IsDigit(ch) == ch \in {"0", "1", "2", "3", "4", "5", "6", "7", "8", "9"}
char_upper(ch) == IF IsLower(ch) THEN UpperCase[ch] ELSE ch
char_lower(ch) ==
  IF IsUpper(ch) THEN CHOOSE l \in DOMAIN UpperCase : UpperCase[l] = ch ELSE ch

\* str.lower()
str_lower(s) == [i \in 1..Len(s) |-> char_lower(s[i])]

\* str.title(): the first letter of each run of letters in upper case, the
\* other letters in lower case
str_title(s) ==
  [i \in 1..Len(s) |->
     IF ~IsLetter(s[i]) THEN s[i]
     ELSE IF i = 1 \/ ~IsLetter(s[i - 1]) THEN char_upper(s[i]) ELSE char_lower(s[i])]

\* str.strip(), which serializers.CharField applies (trim_whitespace)
RECURSIVE str_strip(_)
str_strip(s) ==
  IF s = <<>> THEN s
  ELSE IF Head(s) = " " THEN str_strip(Tail(s))
  ELSE IF s[Len(s)] = " " THEN str_strip(SubSeq(s, 1, Len(s) - 1))
  ELSE s

\* the lookup field=value, which tells letters of different case apart
iexact_exact(a, b) == a = b

\* the lookup field__iexact=value
iexact(a, b) == str_lower(a) = str_lower(b)

\* a value of a request that may be left out, or a column that may be NULL:
\* the empty set, or the set of the one value
Missing == {}
Some(v) == {v}
The(S) == CHOOSE v \in S : TRUE

\* Decimal('10000.00'), prices being counted in cents
MaxPrice == 1000000
MaxStock == 10000
MinTitleLength == 3
MinNameLength == 3
\* Book.isbn = CharField(max_length=13, unique=True)
IsbnMaxLength == 13

\* the outcome of the validation of one field: the value to store, or an error
Valid(v) == [ok |-> TRUE, value |-> v]
Invalid == [ok |-> FALSE]

\* CategorySerializer.validate_name; instance is the pk of the row that is
\* updated, None for a creation
validate_name(value, instance) ==
  IF Len(value) < MinNameLength THEN Invalid
  ELSE IF \E c \in DOMAIN category_rows \ {instance} :
            iexact(category_rows[c].name, value)
  THEN Invalid
  ELSE Valid(str_title(value))

\* BookSerializer.validate_title
validate_title(value, instance) ==
  IF Len(value) < MinTitleLength THEN Invalid
  ELSE IF \E b \in DOMAIN book_rows \ {instance} : iexact(book_rows[b].title, value)
  THEN Invalid
  ELSE Valid(str_title(value))

\* re.sub(r'[\s-]', '', value)
re_sub_spaces_dashes(value) == SelectSeq(value, LAMBDA ch : ch \notin {" ", "-"})

\* re.match(r'^\d{10}$|^\d{13}$', clean_isbn)
re_match_10_or_13_digits(s) ==
  /\ Len(s) \in {10, 13}
  /\ \A i \in 1..Len(s) : IsDigit(s[i])

\* BookSerializer.validate_isbn (the field has rejected an empty value before)
validate_isbn(value, instance) ==
  LET clean_isbn == re_sub_spaces_dashes(value) IN
  IF ~re_match_10_or_13_digits(clean_isbn) THEN Invalid
  ELSE IF \E b \in DOMAIN book_rows \ {instance} : book_rows[b].isbn = clean_isbn
  THEN Invalid
  ELSE Valid(clean_isbn)

\* the isbn field of the ModelSerializer, built from Book.isbn: the value
\* stripped, not blank, at most max_length characters, not the isbn of another
\* book (UniqueValidator); validate_isbn runs on a value that passed these
isbn_run_validation(data, instance) ==
  LET value == str_strip(data) IN
  IF value = <<>> THEN Invalid
  ELSE IF Len(value) > IsbnMaxLength THEN Invalid
  ELSE IF \E b \in DOMAIN book_rows \ {instance} : book_rows[b].isbn = value
  THEN Invalid
  ELSE validate_isbn(value, instance)

\* BookSerializer.validate_price
validate_price(value) ==
  IF value <= 0 THEN Invalid
  ELSE IF value > MaxPrice THEN Invalid
  ELSE Valid(value)

\* BookSerializer.validate_stock_quantity
validate_stock_quantity(value) ==
  IF value < 0 THEN Invalid
  ELSE IF value > MaxStock THEN Invalid
  ELSE Valid(value)

\* AuthorSerializer.validate_email
validate_email(value, instance) ==
  IF value # "" /\ \E a \in DOMAIN author_rows \ {instance} :
                     author_rows[a].email = Some(value)
  THEN Invalid
  ELSE Valid(value)

\* User.ROLES
Roles == {"ADMIN", "MODERATOR", "USER"}

\* a check that lets a MODERATOR pass as well
IsAdmin_or_moderator(role) == role \in {"ADMIN", "MODERATOR"}

\* users.permissions.IsAdmin.has_permission, for an authenticated caller
IsAdmin(role) == role = "ADMIN"

\* users.permissions.IsModerator.has_permission
IsModerator(role) == role \in {"ADMIN", "MODERATOR"}

\* get_permissions of the six views, for the methods that write
CategoryListCreateView_get_permissions(method, role) ==
  IF method = "POST" THEN IsAdmin(role) ELSE TRUE
CategoryDetailView_get_permissions(method, role) ==
  IF method \in {"PUT", "PATCH", "DELETE"} THEN IsAdmin(role) ELSE TRUE
AuthorListCreateView_get_permissions(method, role) ==
  IF method = "POST" THEN IsModerator(role) ELSE TRUE
AuthorDetailView_get_permissions(method, role) ==
  IF method = "DELETE" THEN IsAdmin(role)
  ELSE IF method \in {"PUT", "PATCH"} THEN IsModerator(role)
  ELSE TRUE
BookListCreateView_get_permissions(method, role) ==
  IF method = "POST" THEN IsModerator(role) ELSE TRUE
BookDetailView_get_permissions(method, role) ==
  IF method = "DELETE" THEN IsAdmin(role)
  ELSE IF method \in {"PUT", "PATCH"} THEN IsModerator(role)
  ELSE TRUE

\* the exceptions of the REST framework that the views raise
PermissionDenied == APIException(403, {"detail"})
Http404 == APIException(404, {"detail"})
ValidationError(errors) == APIException(400, errors)
\* django.db.IntegrityError: a unique constraint of the table refuses the row
IntegrityError == [api |-> FALSE, class |-> "IntegrityError"]

\* a request of the REST API with its answer: the caller's role, the row
\* asked for, the data sent, the status and the fields in error
ApiResponse(method, type, role, id, status, errors, data) ==
  [op |-> method, type |-> type, role |-> role, id |-> id, status |-> status,
   errors |-> errors, data |-> data]

\* the answer that custom_exception_handler makes of an exception
ApiError(method, type, role, id, exc, data) ==
  LET response == custom_exception_handler(exc) IN
  ApiResponse(method, type, role, id, response.status_code,
              IF "errors" \in DOMAIN response.data THEN response.data.errors ELSE {},
              data)

\* rows inserted so far in the tables with columns
RowsInserted ==
  (row_seq["Category"] - 1) + (row_seq["Author"] - 1) + (row_seq["Book"] - 1)

\* the ids a request may name
RowPks(t) == {i \in IdsOf(t) : i <= row_seq[t]}

\* f with the row of key k set to v / without the row of key k
Put(f, k, v) == [i \in DOMAIN f \cup {k} |-> IF i = k THEN v ELSE f[i]]
Drop(f, k) == [i \in DOMAIN f \ {k} |-> f[i]]

Method(partial) == IF partial THEN "PATCH" ELSE "PUT"

\* POST /api/categories/ with data = [name |-> ..]
CategoryListCreateView_create(role, data) ==
  /\ CanStart
  /\ RowsInserted < MaxRows
  /\ LET v == IF data.name = Missing THEN Invalid
              ELSE validate_name(str_strip(The(data.name)), None) IN
     IF ~CategoryListCreateView_get_permissions("POST", role)
     THEN /\ resp' = ApiError("POST", "Category", role, None, PermissionDenied, data)
          /\ UNCHANGED <<category_rows, row_seq>>
     ELSE IF ~v.ok
     THEN /\ resp' = ApiError("POST", "Category", role, None,
                              ValidationError({"name"}), data)
          /\ UNCHANGED <<category_rows, row_seq>>
     ELSE /\ category_rows' = Put(category_rows, row_seq["Category"], [name |-> v.value])
          /\ row_seq' = [row_seq EXCEPT !["Category"] = @ + 1]
          /\ resp' = ApiResponse("POST", "Category", role, row_seq["Category"], 201, {}, data)
  /\ UNCHANGED <<dbvars, op, author_rows, book_rows, users>>

\* PUT (partial = FALSE) or PATCH (partial = TRUE) /api/categories/<pk>/
CategoryDetailView_update(role, pk, data, partial) ==
  /\ CanStart
  /\ LET method == Method(partial)
         v == IF data.name = Missing THEN Invalid
              ELSE validate_name(str_strip(The(data.name)), pk) IN
     IF ~CategoryDetailView_get_permissions(method, role)
     THEN /\ resp' = ApiError(method, "Category", role, pk, PermissionDenied, data)
          /\ UNCHANGED category_rows
     ELSE IF pk \notin DOMAIN category_rows
     THEN /\ resp' = ApiError(method, "Category", role, pk, Http404, data)
          /\ UNCHANGED category_rows
     ELSE IF data.name = Missing /\ partial
     THEN /\ resp' = ApiResponse(method, "Category", role, pk, 200, {}, data)
          /\ UNCHANGED category_rows
     ELSE IF ~v.ok
     THEN /\ resp' = ApiError(method, "Category", role, pk, ValidationError({"name"}), data)
          /\ UNCHANGED category_rows
     ELSE /\ category_rows' = Put(category_rows, pk, [name |-> v.value])
          /\ resp' = ApiResponse(method, "Category", role, pk, 200, {}, data)
  /\ UNCHANGED <<dbvars, op, author_rows, book_rows, row_seq, users>>

\* DELETE /api/categories/<pk>/ : Book.category is on_delete=PROTECT
CategoryDetailView_destroy(role, pk) ==
  /\ CanStart
  /\ IF ~CategoryDetailView_get_permissions("DELETE", role)
     THEN /\ resp' = ApiError("DELETE", "Category", role, pk, PermissionDenied, <<>>)
          /\ UNCHANGED category_rows
     ELSE IF pk \notin DOMAIN category_rows
     THEN /\ resp' = ApiError("DELETE", "Category", role, pk, Http404, <<>>)
          /\ UNCHANGED category_rows
     ELSE IF \E b \in DOMAIN book_rows : book_rows[b].category = pk
     THEN /\ resp' = ApiError("DELETE", "Category", role, pk, ProtectedError, <<>>)
          /\ UNCHANGED category_rows
     ELSE /\ category_rows' = Drop(category_rows, pk)
          /\ resp' = ApiResponse("DELETE", "Category", role, pk, 204, {}, <<>>)
  /\ UNCHANGED <<dbvars, op, author_rows, book_rows, row_seq, users>>

\* Author.email is unique=True, null=True: the table refuses a second row
\* with the same email that is not NULL. The field and validate_email have
\* refused the value before, unless it is '' (a blank value passes the
\* field without its validators, and validate_email skips it)
Author_email_unique(email, instance) ==
  email = Missing \/ \A a \in DOMAIN author_rows \ {instance} : author_rows[a].email # email

\* POST /api/authors/ with data = [email |-> ..]; first_name and last_name
\* are taken to be valid and not those of another author
AuthorListCreateView_create(role, data) ==
  /\ CanStart
  /\ RowsInserted < MaxRows
  /\ LET v == IF data.email = Missing THEN Valid(None)
              ELSE validate_email(The(data.email), None) IN
     IF ~AuthorListCreateView_get_permissions("POST", role)
     THEN /\ resp' = ApiError("POST", "Author", role, None, PermissionDenied, data)
          /\ UNCHANGED <<author_rows, row_seq>>
     ELSE IF ~v.ok
     THEN /\ resp' = ApiError("POST", "Author", role, None,
                              ValidationError({"email"}), data)
          /\ UNCHANGED <<author_rows, row_seq>>
     ELSE IF ~Author_email_unique(data.email, None)
     THEN /\ resp' = ApiError("POST", "Author", role, None, IntegrityError, data)
          /\ UNCHANGED <<author_rows, row_seq>>
     ELSE /\ author_rows' = Put(author_rows, row_seq["Author"], [email |-> data.email])
          /\ row_seq' = [row_seq EXCEPT !["Author"] = @ + 1]
          /\ resp' = ApiResponse("POST", "Author", role, row_seq["Author"], 201, {}, data)
  /\ UNCHANGED <<dbvars, op, category_rows, book_rows, users>>

\* PUT or PATCH /api/authors/<pk>/ ; an email left out stays as it is
AuthorDetailView_update(role, pk, data, partial) ==
  /\ CanStart
  /\ LET method == Method(partial)
         v == IF data.email = Missing THEN Valid(None)
              ELSE validate_email(The(data.email), pk) IN
     IF ~AuthorDetailView_get_permissions(method, role)
     THEN /\ resp' = ApiError(method, "Author", role, pk, PermissionDenied, data)
          /\ UNCHANGED author_rows
     ELSE IF pk \notin DOMAIN author_rows
     THEN /\ resp' = ApiError(method, "Author", role, pk, Http404, data)
          /\ UNCHANGED author_rows
     ELSE IF data.email = Missing
     THEN /\ resp' = ApiResponse(method, "Author", role, pk, 200, {}, data)
          /\ UNCHANGED author_rows
     ELSE IF ~v.ok
     THEN /\ resp' = ApiError(method, "Author", role, pk, ValidationError({"email"}), data)
          /\ UNCHANGED author_rows
     ELSE IF ~Author_email_unique(data.email, pk)
     THEN /\ resp' = ApiError(method, "Author", role, pk, IntegrityError, data)
          /\ UNCHANGED author_rows
     ELSE /\ author_rows' = Put(author_rows, pk, [email |-> data.email])
          /\ resp' = ApiResponse(method, "Author", role, pk, 200, {}, data)
  /\ UNCHANGED <<dbvars, op, category_rows, book_rows, row_seq, users>>

\* DELETE /api/authors/<pk>/ : the author's rows of Book.authors go with it
AuthorDetailView_destroy(role, pk) ==
  /\ CanStart
  /\ IF ~AuthorDetailView_get_permissions("DELETE", role)
     THEN /\ resp' = ApiError("DELETE", "Author", role, pk, PermissionDenied, <<>>)
          /\ UNCHANGED <<author_rows, book_rows>>
     ELSE IF pk \notin DOMAIN author_rows
     THEN /\ resp' = ApiError("DELETE", "Author", role, pk, Http404, <<>>)
          /\ UNCHANGED <<author_rows, book_rows>>
     ELSE /\ author_rows' = Drop(author_rows, pk)
          /\ book_rows' = [b \in DOMAIN book_rows |->
                             [book_rows[b] EXCEPT !.authors = @ \ {pk}]]
          /\ resp' = ApiResponse("DELETE", "Author", role, pk, 204, {}, <<>>)
  /\ UNCHANGED <<dbvars, op, category_rows, row_seq, users>>

\* one field of BookSerializer.run_validation: a field left out is an error
\* when it is required and the update is not partial; else the outcome of
\* its validators
title_field(data, instance, partial) ==
  IF data.title = Missing THEN (IF partial THEN Valid(Missing) ELSE Invalid)
  ELSE LET v == validate_title(str_strip(The(data.title)), instance) IN
       IF v.ok THEN Valid(Some(v.value)) ELSE Invalid

isbn_field(data, instance, partial) ==
  IF data.isbn = Missing THEN (IF partial THEN Valid(Missing) ELSE Invalid)
  ELSE LET v == isbn_run_validation(The(data.isbn), instance) IN
       IF v.ok THEN Valid(Some(v.value)) ELSE Invalid

price_field(data, instance, partial) ==
  IF data.price = Missing THEN (IF partial THEN Valid(Missing) ELSE Invalid)
  ELSE LET v == validate_price(The(data.price)) IN
       IF v.ok THEN Valid(Some(v.value)) ELSE Invalid

\* stock_quantity has default=0: never required
stock_quantity_field(data, instance, partial) ==
  IF data.stock_quantity = Missing THEN Valid(Missing)
  ELSE LET v == validate_stock_quantity(The(data.stock_quantity)) IN
       IF v.ok THEN Valid(Some(v.value)) ELSE Invalid

\* PrimaryKeyRelatedField(queryset=Category.objects.all())
category_field(data, instance, partial) ==
  IF data.category = Missing THEN (IF partial THEN Valid(Missing) ELSE Invalid)
  ELSE IF The(data.category) \in DOMAIN category_rows THEN Valid(data.category)
  ELSE Invalid

\* ManyRelatedField of Book.authors (blank=False: allow_empty=False)
authors_field(data, instance, partial) ==
  IF data.authors = Missing THEN (IF partial THEN Valid(Missing) ELSE Invalid)
  ELSE IF The(data.authors) # {} /\ The(data.authors) \subseteq DOMAIN author_rows
  THEN Valid(data.authors)
  ELSE Invalid

\* BookSerializer.validate(data): the fields in error
validate(validated) ==
  IF validated.authors # Missing /\ The(validated.authors) = {} THEN {"authors"}
  ELSE IF validated.category = Missing THEN {"category"}
  ELSE {}

\* BookSerializer.run_validation: every field, then validate() if no field
\* is in error
BookSerializer_run_validation(data, instance, partial) ==
  LET fields == [title |-> title_field(data, instance, partial),
                 isbn |-> isbn_field(data, instance, partial),
                 price |-> price_field(data, instance, partial),
                 stock_quantity |-> stock_quantity_field(data, instance, partial),
                 category |-> category_field(data, instance, partial),
                 authors |-> authors_field(data, instance, partial)]
      field_errors == {f \in DOMAIN fields : ~fields[f].ok}
      validated == [f \in DOMAIN fields |-> fields[f].value]
  IN IF field_errors # {} THEN [errors |-> field_errors]
     ELSE [errors |-> validate(validated), validated_data |-> validated]

\* the row with the validated fields written over it
Book_with(row, validated) ==
  [f \in DOMAIN row |-> IF validated[f] = Missing THEN row[f] ELSE The(validated[f])]

\* the columns of a new Book before the validated fields are written
Book_defaults == [title |-> <<>>, isbn |-> <<>>, price |-> 0, stock_quantity |-> 0,
                  category |-> None, authors |-> {}]

\* POST /api/books/
BookListCreateView_create(role, data) ==
  /\ CanStart
  /\ RowsInserted < MaxRows
  /\ LET v == BookSerializer_run_validation(data, None, FALSE) IN
     IF ~BookListCreateView_get_permissions("POST", role)
     THEN /\ resp' = ApiError("POST", "Book", role, None, PermissionDenied, data)
          /\ UNCHANGED <<book_rows, row_seq>>
     ELSE IF v.errors # {}
     THEN /\ resp' = ApiError("POST", "Book", role, None, ValidationError(v.errors), data)
          /\ UNCHANGED <<book_rows, row_seq>>
     ELSE /\ book_rows' = Put(book_rows, row_seq["Book"],
                              Book_with(Book_defaults, v.validated_data))
          /\ row_seq' = [row_seq EXCEPT !["Book"] = @ + 1]
          /\ resp' = ApiResponse("POST", "Book", role, row_seq["Book"], 201, {}, data)
  /\ UNCHANGED <<dbvars, op, category_rows, author_rows, users>>

\* PUT or PATCH /api/books/<pk>/
BookDetailView_update(role, pk, data, partial) ==
  /\ CanStart
  /\ LET method == Method(partial)
         v == BookSerializer_run_validation(data, pk, partial) IN
     IF ~BookDetailView_get_permissions(method, role)
     THEN /\ resp' = ApiError(method, "Book", role, pk, PermissionDenied, data)
          /\ UNCHANGED book_rows
     ELSE IF pk \notin DOMAIN book_rows
     THEN /\ resp' = ApiError(method, "Book", role, pk, Http404, data)
          /\ UNCHANGED book_rows
     ELSE IF v.errors # {}
     THEN /\ resp' = ApiError(method, "Book", role, pk, ValidationError(v.errors), data)
          /\ UNCHANGED book_rows
     ELSE /\ book_rows' = Put(book_rows, pk, Book_with(book_rows[pk], v.validated_data))
          /\ resp' = ApiResponse(method, "Book", role, pk, 200, {}, data)
  /\ UNCHANGED <<dbvars, op, category_rows, author_rows, row_seq, users>>

\* DELETE /api/books/<pk>/ : Book.delete, which commits
BookDetailView_destroy(role, pk) ==
  /\ CanStart
  /\ IF ~BookDetailView_get_permissions("DELETE", role)
     THEN /\ resp' = ApiError("DELETE", "Book", role, pk, PermissionDenied, <<>>)
          /\ UNCHANGED book_rows
     ELSE IF pk \notin DOMAIN book_rows
     THEN /\ resp' = ApiError("DELETE", "Book", role, pk, Http404, <<>>)
          /\ UNCHANGED book_rows
     ELSE /\ book_rows' = Drop(book_rows, pk)
          /\ resp' = ApiResponse("DELETE", "Book", role, pk, 204, {}, <<>>)
  /\ UNCHANGED <<dbvars, op, category_rows, author_rows, row_seq, users>>

\* The values a JSON or form body can give request.data['stock_quantity']
\* are records: [int |-> n] an integer, [str |-> s] a string, [tenths |-> t]
\* a number with a fraction, counted in tenths, [list |-> <<>>] a list.

ValueError == [api |-> FALSE, class |-> "ValueError"]
TypeError == [api |-> FALSE, class |-> "TypeError"]

\* the number a string of decimal digits writes
RECURSIVE digits_value(_)
digits_value(s) ==
  IF s = <<>> THEN 0
  ELSE 10 * digits_value(SubSeq(s, 1, Len(s) - 1))
         + (CHOOSE d \in 0..9 : ToString(d) = s[Len(s)])

\* a string stripped and read as a signed decimal number, or ValueError
int_of_str(str) ==
  LET s == str_strip(str)
      signed == s # <<>> /\ Head(s) \in {"-", "+"}
      digits == IF signed THEN Tail(s) ELSE s
  IN IF digits = <<>> \/ \E i \in 1..Len(digits) : ~IsDigit(digits[i])
     THEN [raised |-> Some(ValueError)]
     ELSE [raised |-> Missing,
           value |-> IF signed /\ Head(s) = "-" THEN 0 - digits_value(digits)
                     ELSE digits_value(digits)]

\* int(new_quantity): an integer is itself; a number with a fraction is cut
\* towards zero; a string is read as a number or raises ValueError; a list
\* raises TypeError
python_int(value) ==
  IF "int" \in DOMAIN value THEN [raised |-> Missing, value |-> value.int]
  ELSE IF "tenths" \in DOMAIN value
  THEN [raised |-> Missing,
        value |-> IF value.tenths >= 0 THEN value.tenths \div 10
                  ELSE 0 - ((0 - value.tenths) \div 10)]
  ELSE IF "str" \in DOMAIN value THEN int_of_str(value.str)
  ELSE [raised |-> Some(TypeError)]

\* PUT /api/books/<book_id>/update-stock/ with request.data['stock_quantity'];
\* the try block catches ValueError alone
update_book_stock(role, book_id, new_quantity) ==
  /\ CanStart
  /\ LET data == [stock_quantity |-> new_quantity] IN
     IF ~IsModerator(role)
     THEN /\ resp' = ApiError("update_book_stock", "Book", role, book_id,
                              PermissionDenied, data)
          /\ UNCHANGED book_rows
     ELSE IF book_id \notin DOMAIN book_rows
     THEN /\ resp' = ApiResponse("update_book_stock", "Book", role, book_id, 404,
                                 {"error"}, data)
          /\ UNCHANGED book_rows
     ELSE IF new_quantity = Missing
     THEN /\ resp' = ApiResponse("update_book_stock", "Book", role, book_id, 400,
                                 {"error"}, data)
          /\ UNCHANGED book_rows
     ELSE LET converted == python_int(The(new_quantity)) IN
          IF converted.raised = Some(TypeError)
          THEN /\ resp' = ApiError("update_book_stock", "Book", role, book_id,
                                   TypeError, data)
               /\ UNCHANGED book_rows
          ELSE IF converted.raised = Some(ValueError) \/ converted.value < 0
          THEN /\ resp' = ApiResponse("update_book_stock", "Book", role, book_id, 400,
                                      {"error"}, data)
               /\ UNCHANGED book_rows
          ELSE /\ book_rows' = [book_rows EXCEPT ![book_id].stock_quantity =
                                                   converted.value]
               /\ resp' = ApiResponse("update_book_stock", "Book", role, book_id, 200,
                                      {}, data)
  /\ UNCHANGED <<dbvars, op, category_rows, author_rows, row_seq, users>>

\* ---- the requests of the REST API ----
\* names and titles: two that differ in case only, and a third
Names == {<<"a", "b", "c">>, <<"A", "B", "C">>, <<"x", "y", "z">>}

\* ISBNs: ten digits, the same with three dashes (13 characters), thirteen
\* digits, the same with a dash (14 characters)
Isbn10 == <<"0", "3", "0", "6", "4", "0", "6", "1", "5", "2">>
Isbn10Dashes == <<"0", "-", "3", "0", "6", "-", "4", "0", "6", "1", "5", "-", "2">>
Isbn13 == <<"9", "7", "8", "0", "3", "0", "6", "4", "0", "6", "1", "5", "7">>
Isbn13Dash == <<"9", "7", "8", "-", "0", "3", "0", "6", "4", "0", "6", "1", "5", "7">>
Isbns == {Isbn10, Isbn10Dashes, Isbn13, Isbn13Dash}

Optional(S) == {Missing} \cup {Some(v) : v \in S}

CategoryData == {[name |-> n] : n \in Optional(Names)}
\* no email, the empty email and an address
AuthorData == {[email |-> e] : e \in Optional({"", "ann@example.org"})}

\* title, isbn, price and stock_quantity of a book request: every title with
\* every isbn at a valid price, and one payload for each price and stock out
\* of range
BookColumns ==
  {[title |-> Some(t), isbn |-> Some(i), price |-> Some(MaxPrice),
    stock_quantity |-> Missing] : t \in Names, i \in Isbns}
  \cup {[title |-> Some(<<"x", "y", "z">>), isbn |-> Some(Isbn13),
         price |-> Some(p), stock_quantity |-> Missing] : p \in {0, MaxPrice + 1}}
  \cup {[title |-> Some(<<"x", "y", "z">>), isbn |-> Some(Isbn13),
         price |-> Some(MaxPrice), stock_quantity |-> Some(q)] : q \in {-1, MaxStock + 1}}

\* the columns of a full update: every title with every isbn
PutColumns ==
  {[title |-> Some(t), isbn |-> Some(i), price |-> Some(MaxPrice),
    stock_quantity |-> Missing] : t \in Names, i \in Isbns}

\* the columns of a PATCH: a title or a stock alone
PatchColumns ==
  {[title |-> t, isbn |-> Missing, price |-> Missing, stock_quantity |-> q] :
     t \in Optional({<<"A", "B", "C">>}), q \in Optional({MaxStock + 1})}

\* a book request: the columns, a category and authors
BookData(columns, categories_given, authors_given) ==
  {[title |-> c.title, isbn |-> c.isbn, price |-> c.price,
    stock_quantity |-> c.stock_quantity, category |-> k, authors |-> a] :
     c \in columns, k \in categories_given, a \in authors_given}

\* POST: a category that exists or the id of none; every author, or none
BookPostData ==
  BookData(BookColumns,
           {Some(k) : k \in DOMAIN category_rows \cup {row_seq["Category"]}},
           {Some(DOMAIN author_rows), Some({})})

BookPutData ==
  BookData(PutColumns, {Some(k) : k \in DOMAIN category_rows},
           {Some(DOMAIN author_rows)})

BookPatchData ==
  BookData(PatchColumns, Optional(DOMAIN category_rows), {Missing})

\* the creations and updates of a caller whom every view permits
ApiNext ==
  \/ Respond
  \/ (resp = Pending /\ \E data \in CategoryData :
        CategoryListCreateView_create("ADMIN", data))
  \/ (resp = Pending /\ \E pk \in RowPks("Category"), data \in CategoryData :
        \E partial \in BOOLEAN : CategoryDetailView_update("ADMIN", pk, data, partial))
  \/ (resp = Pending /\ \E data \in AuthorData :
        AuthorListCreateView_create("ADMIN", data))
  \/ (resp = Pending /\ \E pk \in RowPks("Author"), data \in AuthorData :
        \E partial \in BOOLEAN : AuthorDetailView_update("ADMIN", pk, data, partial))
  \/ (resp = Pending /\ \E data \in BookPostData :
        BookListCreateView_create("ADMIN", data))
  \/ (resp = Pending /\ \E pk \in RowPks("Book"), data \in BookPutData :
        BookDetailView_update("ADMIN", pk, data, FALSE))
  \/ (resp = Pending /\ \E pk \in RowPks("Book"), data \in BookPatchData :
        BookDetailView_update("ADMIN", pk, data, TRUE))
  \/ (resp = Pending /\ \E book_id \in RowPks("Book") :
        \E new_quantity \in Optional({[int |-> -1], [int |-> MaxStock + 1]}) :
          update_book_stock("ADMIN", book_id, new_quantity))

SpecApi == Init /\ [][ApiNext]_vars

\* ---- the requests of the REST API by callers of every role ----
\* one valid payload for each table
RoleCategoryData == {[name |-> Some(<<"x", "y", "z">>)]}
RoleAuthorData == {[email |-> Missing]}
RoleBookData ==
  BookData({[title |-> Some(<<"x", "y", "z">>), isbn |-> Some(Isbn13),
             price |-> Some(MaxPrice), stock_quantity |-> Missing]},
           {Some(k) : k \in DOMAIN category_rows}, {Some(DOMAIN author_rows)})
RoleStock == 5

\* every writing request, by an ADMIN, a MODERATOR and a USER
RolesNext ==
  \/ Respond
  \/ (resp = Pending /\ \E role \in Roles, data \in RoleCategoryData :
        CategoryListCreateView_create(role, data))
  \/ (resp = Pending /\ \E role \in Roles, pk \in RowPks("Category") :
        \E data \in RoleCategoryData, partial \in BOOLEAN :
          CategoryDetailView_update(role, pk, data, partial))
  \/ (resp = Pending /\ \E role \in Roles, pk \in RowPks("Category") :
        CategoryDetailView_destroy(role, pk))
  \/ (resp = Pending /\ \E role \in Roles, data \in RoleAuthorData :
        AuthorListCreateView_create(role, data))
  \/ (resp = Pending /\ \E role \in Roles, pk \in RowPks("Author") :
        \E data \in RoleAuthorData, partial \in BOOLEAN :
          AuthorDetailView_update(role, pk, data, partial))
  \/ (resp = Pending /\ \E role \in Roles, pk \in RowPks("Author") :
        AuthorDetailView_destroy(role, pk))
  \/ (resp = Pending /\ \E role \in Roles, data \in RoleBookData :
        BookListCreateView_create(role, data))
  \/ (resp = Pending /\ \E role \in Roles, pk \in RowPks("Book") :
        \E data \in RoleBookData, partial \in BOOLEAN :
          BookDetailView_update(role, pk, data, partial))
  \/ (resp = Pending /\ \E role \in Roles, pk \in RowPks("Book") :
        BookDetailView_destroy(role, pk))
  \/ (resp = Pending /\ \E role \in Roles, book_id \in RowPks("Book") :
        update_book_stock(role, book_id, Some([int |-> RoleStock])))
SpecRoles == Init /\ [][RolesNext]_vars

\* ---- the requests of update_book_stock ----
\* two books that can be created, each with the one category and author
StockBookData ==
  BookData({[title |-> Some(<<"x", "y", "z">>), isbn |-> Some(Isbn13),
             price |-> Some(MaxPrice), stock_quantity |-> Missing],
            [title |-> Some(<<"a", "b", "c">>), isbn |-> Some(Isbn10),
             price |-> Some(MaxPrice), stock_quantity |-> Missing]},
           {Some(k) : k \in DOMAIN category_rows}, {Some(DOMAIN author_rows)})

\* stock_quantity left out, or: -1, 7, "12", " 7 ", "-1", "a", "", 3.7, -0.5,
\* a list
StockSent ==
  Optional({[int |-> -1], [int |-> 7], [str |-> <<"1", "2">>], [str |-> <<" ", "7", " ">>],
            [str |-> <<"-", "1">>], [str |-> <<"a">>], [str |-> <<>>],
            [tenths |-> 37], [tenths |-> -5], [list |-> <<>>]})

StockNext ==
  \/ Respond
  \/ (resp = Pending /\ \E data \in RoleCategoryData :
        CategoryListCreateView_create("ADMIN", data))
  \/ (resp = Pending /\ \E data \in RoleAuthorData :
        AuthorListCreateView_create("ADMIN", data))
  \/ (resp = Pending /\ \E data \in StockBookData :
        BookListCreateView_create("MODERATOR", data))
  \/ (resp = Pending /\ \E role \in Roles, book_id \in RowPks("Book") :
        \E new_quantity \in StockSent : update_book_stock(role, book_id, new_quantity))
SpecStock == Init /\ [][StockNext]_vars

\* ---- the user endpoints (users/views.py) ----
\* users is the User table: id -> [username, role, password, bio], the ids
\* being 1, 2, .. in the order of creation. A caller is the id of the user
\* the request authenticates as, None for a request without credentials.
\* email, first_name and last_name are taken to be given, valid and unique.

\* serializers.CharField(required=..): the value stripped, which must not be
\* blank; a value left out is an error if the field is required
CharField(value, required) ==
  IF value = Missing THEN (IF required THEN Invalid ELSE Valid(Missing))
  ELSE IF str_strip(The(value)) = <<>> THEN Invalid
  ELSE Valid(Some(str_strip(The(value))))

\* user.check_password(raw_password)
check_password(user, raw_password) == users[user].password = raw_password

\* is_authenticated and role == 'ADMIN'
IsAdminUser(caller) == caller \in DOMAIN users /\ users[caller].role = "ADMIN"

NotAuthenticated == APIException(401, {"detail"})
AuthenticationFailed == APIException(401, {"detail"})
KeyError == [api |-> FALSE, class |-> "KeyError"]
DoesNotExist == [api |-> FALSE, class |-> "DoesNotExist"]

\* a request of a user endpoint with its answer: the caller, the data sent,
\* the status, the body, and the id of the user served or written
UserResponse(method, view, caller, status, body, object, data) ==
  [op |-> method, type |-> view, caller |-> caller, status |-> status,
   body |-> body, object |-> object, data |-> data]

\* the answer that custom_exception_handler makes of an exception
UserError(method, view, caller, exc, data) ==
  LET response == custom_exception_handler(exc) IN
  UserResponse(method, view, caller, response.status_code, response.data, None, data)

\* User.objects.create_user(..), as the tests, a shell or the admin site call
\* it: the way the first users and the users with a role come to be
User_objects_create_user(username, role, password) ==
  /\ CanStart
  /\ Len(users) < MaxUsers
  /\ \A u \in DOMAIN users : users[u].username # username
  /\ users' = Append(users, [username |-> username, role |-> role,
                             password |-> password, bio |-> ""])
  /\ UNCHANGED <<dbvars, op, resp, rowvars>>

\* the role a registration keeps for its user
perform_create_role_as_asked(caller, role) == role

\* RegisterView.perform_create: the role that is saved
perform_create_role(caller, role) == IF ~IsAdminUser(caller) THEN "USER" ELSE role

\* UserSerializer.run_validation for a registration: the fields in error,
\* or the exception of validate(), or the validated data
UserSerializer_run_validation(data) ==
  LET username == CharField(data.username, TRUE)
      password == CharField(data.password, FALSE)
      password2 == CharField(data.password2, FALSE)
      username_taken ==
        username.ok /\ \E u \in DOMAIN users : Some(users[u].username) = username.value
      field_errors == {f \in {"username"} : ~username.ok \/ username_taken}
                        \cup {f \in {"password"} : ~password.ok}
                        \cup {f \in {"password2"} : ~password2.ok}
  IN IF field_errors # {} THEN [raised |-> Some(ValidationError(field_errors))]
     ELSE IF password.value = Missing \/ password2.value = Missing
     THEN [raised |-> Some(KeyError)]
     ELSE IF password.value # password2.value
     THEN [raised |-> Some(ValidationError({"password"}))]
     ELSE [raised |-> Missing,
           validated_data |->
             [username |-> The(username.value), password |-> The(password.value),
              role |-> IF data.role = Missing THEN "USER" ELSE The(data.role)]]

\* POST /api/users/register/ (AllowAny)
RegisterView_create(caller, data) ==
  /\ CanStart
  /\ Len(users) < MaxUsers
  /\ LET v == UserSerializer_run_validation(data) IN
     IF v.raised # Missing
     THEN /\ resp' = UserError("POST", "RegisterView", caller, The(v.raised), data)
          /\ UNCHANGED users
     ELSE /\ users' = Append(users,
                 [username |-> v.validated_data.username,
                  role |-> perform_create_role(caller, v.validated_data.role),
                  password |-> v.validated_data.password, bio |-> ""])
          /\ resp' = UserResponse("POST", "RegisterView", caller, 201,
                                  [username |-> v.validated_data.username],
                                  Len(users) + 1, data)
  /\ UNCHANGED <<dbvars, op, rowvars>>

\* a lookup that serves the user_id of the URL to every caller
get_object_of_url(caller, user_id) == IF user_id # None THEN user_id ELSE caller

\* UserProfileView.get_object: the id of the user served
get_object(caller, user_id) ==
  IF user_id # None /\ users[caller].role = "ADMIN" THEN user_id ELSE caller

\* GET /api/users/profile/ and /api/users/profile/<user_id>/ (IsAuthenticated);
\* user_id is None for the first URL
UserProfileView_retrieve(caller, user_id) ==
  /\ CanStart
  /\ resp' =
       IF caller = None
       THEN UserError("GET", "UserProfileView", caller, NotAuthenticated,
                      [user_id |-> user_id])
       ELSE LET instance == get_object(caller, user_id) IN
            IF instance \notin DOMAIN users
            THEN UserError("GET", "UserProfileView", caller, DoesNotExist,
                           [user_id |-> user_id])
            ELSE UserResponse("GET", "UserProfileView", caller, 200,
                              [username |-> users[instance].username,
                               role |-> users[instance].role],
                              instance, [user_id |-> user_id])
  /\ UNCHANGED <<dbvars, op, rowvars, users>>

\* PUT and PATCH /api/users/profile/[<user_id>/] with UserUpdateSerializer:
\* username and role are read-only, bio is written if it is sent; the
\* answer records the user_id of the URL with the data
UserProfileView_update(caller, user_id, body, partial) ==
  /\ CanStart
  /\ LET data == [user_id |-> user_id, username |-> body.username,
                  role |-> body.role, bio |-> body.bio] IN
     IF caller = None
     THEN /\ resp' = UserError(Method(partial), "UserProfileView", caller,
                               NotAuthenticated, data)
          /\ UNCHANGED users
     ELSE LET instance == get_object(caller, user_id) IN
          IF instance \notin DOMAIN users
          THEN /\ resp' = UserError(Method(partial), "UserProfileView", caller,
                                    DoesNotExist, data)
               /\ UNCHANGED users
          ELSE /\ users' = IF data.bio = Missing THEN users
                           ELSE [users EXCEPT ![instance].bio = The(data.bio)]
               /\ resp' = UserResponse(Method(partial), "UserProfileView", caller, 200,
                                       [username |-> users[instance].username,
                                        role |-> users[instance].role],
                                       instance, data)
  /\ UNCHANGED <<dbvars, op, rowvars>>

\* ChangePasswordSerializer.run_validation
ChangePasswordSerializer_run_validation(data) ==
  LET fields == [old_password |-> CharField(data.old_password, TRUE),
                 new_password |-> CharField(data.new_password, TRUE),
                 new_password2 |-> CharField(data.new_password2, TRUE)]
      field_errors == {f \in DOMAIN fields : ~fields[f].ok}
  IN IF field_errors # {} THEN [raised |-> Some(ValidationError(field_errors))]
     ELSE IF fields.new_password.value # fields.new_password2.value
     THEN [raised |-> Some(ValidationError({"new_password"}))]
     ELSE [raised |-> Missing,
           data |-> [f \in DOMAIN fields |-> The(fields[f].value)]]

\* PUT /api/users/change-password/ (IsAuthenticated)
ChangePasswordView_update(caller, data) ==
  /\ CanStart
  /\ IF caller = None
     THEN /\ resp' = UserError("PUT", "ChangePasswordView", caller, NotAuthenticated, data)
          /\ UNCHANGED users
     ELSE LET serializer == ChangePasswordSerializer_run_validation(data) IN
          IF serializer.raised # Missing
          THEN /\ resp' = UserError("PUT", "ChangePasswordView", caller,
                                    The(serializer.raised), data)
               /\ UNCHANGED users
          ELSE IF ~check_password(caller, serializer.data.old_password)
          THEN /\ resp' = UserResponse("PUT", "ChangePasswordView", caller, 400,
                                       [old_password |-> "Wrong password."], None, data)
               /\ UNCHANGED users
          ELSE /\ users' = [users EXCEPT ![caller].password = serializer.data.new_password]
               /\ resp' = UserResponse("PUT", "ChangePasswordView", caller, 200,
                                       [message |-> "Password updated successfully"],
                                       caller, data)
  /\ UNCHANGED <<dbvars, op, rowvars>>

\* POST /api/users/login/ : TokenObtainPairSerializer authenticates, or
\* raises AuthenticationFailed
LoginView_post(data) ==
  /\ CanStart
  /\ LET username == CharField(data.username, TRUE)
         password == CharField(data.password, TRUE)
     IN resp' =
          IF ~username.ok \/ ~password.ok
          THEN UserError("POST", "LoginView", None,
                         ValidationError({f \in {"username"} : ~username.ok}
                                           \cup {f \in {"password"} : ~password.ok}),
                         data)
          ELSE IF \E u \in DOMAIN users :
                    /\ users[u].username = The(username.value)
                    /\ check_password(u, The(password.value))
          THEN LET user == CHOOSE u \in DOMAIN users :
                             users[u].username = The(username.value)
               IN UserResponse("POST", "LoginView", None, 200,
                               [access |-> user, refresh |-> user], user, data)
          ELSE UserError("POST", "LoginView", None, AuthenticationFailed, data)
  /\ UNCHANGED <<dbvars, op, rowvars, users>>

\* ---- the requests of the user endpoints ----
\* the usernames asked for: the next of a list that no user has yet, and
\* the usernames that are taken
UsernamesSent ==
  {<<<<"a", "n", "n">>, <<"b", "o", "b">>, <<"c", "a", "t">>, <<"d", "a", "n">>>>[Len(users) + 1]}
    \cup {users[u].username : u \in DOMAIN users}
\* passwords: two, and the second with a space after it
Passwords == {<<"p">>, <<"q">>}
PasswordsSent == Passwords \cup {<<"q", " ">>}
Callers == {None} \cup DOMAIN users

RegisterData ==
  {[username |-> Some(u), password |-> p, password2 |-> p2, role |-> r] :
     u \in UsernamesSent, p \in Optional({<<"p">>}),
     p2 \in Optional(Passwords), r \in Optional({"ADMIN", "MODERATOR"})}
ProfileData ==
  {[username |-> u, role |-> r, bio |-> b] :
     u \in Optional({<<"b", "o", "b">>}), r \in Optional({"ADMIN"}),
     b \in Optional({"hello"})}
ChangePasswordData ==
  {[old_password |-> o, new_password |-> n, new_password2 |-> n2] :
     o \in Optional(PasswordsSent), n \in {Some(p) : p \in PasswordsSent},
     n2 \in {Some(p) : p \in PasswordsSent}}
LoginData ==
  {[username |-> Some(u), password |-> p] : u \in UsernamesSent, p \in Optional(Passwords)}

UsersNext ==
  \/ Respond
  \/ (resp = Pending /\ \E username \in UsernamesSent, role \in Roles :
        User_objects_create_user(username, role, <<"p">>))
  \/ (resp = Pending /\ \E caller \in Callers, data \in RegisterData :
        RegisterView_create(caller, data))
  \/ (resp = Pending /\ \E caller \in Callers, user_id \in {None} \cup (1..MaxUsers) :
        UserProfileView_retrieve(caller, user_id))
  \/ (resp = Pending /\ \E caller \in Callers, user_id \in {None} \cup (1..MaxUsers) :
        \E data \in ProfileData, partial \in BOOLEAN :
          UserProfileView_update(caller, user_id, data, partial))
  \/ (resp = Pending /\ \E caller \in Callers, data \in ChangePasswordData :
        ChangePasswordView_update(caller, data))
  \/ (resp = Pending /\ \E data \in LoginData : LoginView_post(data))
SpecUsers == Init /\ [][UsersNext]_vars

\* ---- properties ----

\* C1: through every deletion path (REST DELETE, CategoryAdmin.delete_model,
\* CategoryAdmin.delete_selected) a category that books reference stays:
\* every existing book's category is an existing category.
C1_BookCategoryExists == \A b \in DOMAIN books : books[b] \in categories

\* a REST DELETE of a category that a book references was refused, and the
\* category and the book are still there
C1_Witness ==
  /\ resp.op = "DELETE" /\ resp.type = "Category" /\ resp.status = 500
  /\ resp.id \in categories
  /\ \E b \in DOMAIN books : books[b] = resp.id

\* C2: when Book.delete of book B is through, there is no LogEntry row of
\* (Book, B), no author link of B and no Book row B, however many of them
\* there were.
C2_BookDeleteRemovesAll ==
  /\ (op.kind = "Book.delete" /\ op.pc = "exit") =>
        /\ op.pk \notin DOMAIN books
        /\ AuthorsOfBook(op.pk) = {}
        /\ LogCount(log, "Book", op.pk) = 0
  /\ (resp.op = "Book.delete" /\ resp.status = 204) =>
        /\ resp.id \notin DOMAIN books
        /\ AuthorsOfBook(resp.id) = {}
        /\ LogCount(log, "Book", resp.id) = 0

\* Book.delete has removed a book that had two LogEntry rows and two authors
C2_Witness ==
  /\ op.kind = "Book.delete" /\ op.pc = "exit"
  /\ LogCount(op.savepoint.log, "Book", op.pk) = 2
  /\ Cardinality({l \in op.savepoint.book_authors : l[1] = op.pk}) = 2
  /\ op.pk \notin DOMAIN books

\* C3: a failure inside Book.delete after the LogEntry rows were deleted or
\* after the author links were cleared, and before the Book row is removed,
\* leaves every table as it was when Book.delete was entered.
C3_FailedDeleteRollsBack ==
  [][(/\ op.kind = "Book.delete"
      /\ op.pc \in {"authors_clear", "super_delete"}
      /\ op' = Idle
      /\ resp'.status = 500)
     => /\ Tables' = op.savepoint
        /\ op.pk \in DOMAIN books'
        /\ LogCount(log', "Book", op.pk) = LogCount(op.savepoint.log, "Book", op.pk)
        /\ {l \in book_authors' : l[1] = op.pk}
             = {l \in op.savepoint.book_authors : l[1] = op.pk}]_vars

\* Book.delete failed after its LogEntry rows were deleted and its links
\* cleared; the book is there again with its LogEntry rows and links
C3_Witness ==
  /\ resp.op = "Book.delete" /\ resp.status = 500 /\ resp.at = "super_delete"
  /\ op = Idle
  /\ resp.id \in DOMAIN books
  /\ LogCount(log, "Book", resp.id) = 2
  /\ AuthorsOfBook(resp.id) # {}

\* the books of S are gone from these tables, with their LogEntry rows and links
AllRemoved(S, bks, links, lg) ==
  \A b \in S : /\ b \notin DOMAIN bks
               /\ {l \in links : l[1] = b} = {}
               /\ LogCount(lg, "Book", b) = 0

\* the books of S, their LogEntry rows and their links are as in the savepoint
NoneChanged(S, bks, links, lg, savepoint) ==
  \A b \in S : /\ b \in DOMAIN bks
               /\ bks[b] = savepoint.books[b]
               /\ {l \in links : l[1] = b} = {l \in savepoint.book_authors : l[1] = b}
               /\ LogCount(lg, "Book", b) = LogCount(savepoint.log, "Book", b)

C7_GuardIffNoBooks ==
  (resp.op = "has_delete_permission" /\ resp.id # None)
    => (resp.allowed <=> ~ \E b \in DOMAIN books : books[b] = resp.id)

\* the guard has refused a category that two books reference
C7_Witness ==
  /\ resp.op = "has_delete_permission" /\ resp.id # None
  /\ ~resp.allowed
  /\ Cardinality({b \in DOMAIN books : books[b] = resp.id}) = 2

C4_BulkDeletesExactlyTheFree ==
  [][(op.kind = "CategoryAdmin.delete_selected" /\ op' = Idle)
     => /\ op.deletable \cap categories' = {}
        /\ op.undeletable \subseteq categories'
        /\ resp'.deleted = op.deletable
        /\ {r.category : r \in resp'.blocked} = op.undeletable]_vars

\* C6: in category deletion the check and the delete are one transaction: no
\* book referencing the category is created between the check that found the
\* category free and the delete.
C6_NoBookBetweenCheckAndDelete ==
  (op.kind \in {"CategoryAdmin.delete_model", "CategoryAdmin.delete_selected"}
     /\ op.pc = "delete")
    => \A c \in op.deletable : BooksOf(c) = {}

Deleted(t, i) == i < seq[t] /\ ~Exists(t, i)

C11_BlockedDeleteIsClientError ==
  (/\ resp.op = "DELETE" /\ resp.type = "Category"
   /\ BooksOf(resp.id) # {})
    => (resp.status \in 400..499 /\ resp.id \in categories)

\* C15: when no operation is in progress, every existing book has at least
\* one author.
C15_EveryBookHasAnAuthor ==
  op = Idle => \A b \in DOMAIN books : AuthorsOfBook(b) # {}

\* C12: every book has 0 <= stock_quantity <= 10000 and 0 < price <= 10000.00.
C12_StockAndPriceInRange ==
  \A b \in DOMAIN book_rows :
    /\ 0 <= book_rows[b].stock_quantity /\ book_rows[b].stock_quantity <= MaxStock
    /\ 0 < book_rows[b].price /\ book_rows[b].price <= MaxPrice

\* the answer to an update is that of a row that is there
UpdateOf(type, rows) ==
  resp.op \in {"PUT", "PATCH"} /\ resp.type = type /\ resp.id \in DOMAIN rows

C14_IsbnAcceptedIffNormalizedValid ==
  (/\ resp.op \in {"POST", "PUT", "PATCH"} /\ resp.type = "Book"
   /\ resp.status \in {200, 201, 400}
   /\ resp.data.isbn # Missing)
    => LET sent == The(resp.data.isbn)
           digits == SelectSeq(sent, IsDigit)
           others == DOMAIN book_rows \ {resp.id}
       IN /\ ("isbn" \notin resp.errors)
               <=> /\ \A i \in 1..Len(sent) : IsDigit(sent[i]) \/ sent[i] \in {" ", "-"}
                   /\ Len(digits) \in {10, 13}
                   /\ \A b \in others : book_rows[b].isbn # digits
          /\ resp.status \in {200, 201} => book_rows[resp.id].isbn = digits

\* C16: categories are created, updated and deleted by an ADMIN only; authors
\* and books are deleted by an ADMIN only, and created and updated (the stock
\* of a book included) by an ADMIN or a MODERATOR only; a request of a USER
\* is answered 403 and changes no row.
C16_WritesByPermittedRolesOnly ==
  [][(resp = Pending /\ resp' # Pending) =>
       /\ category_rows' # category_rows => resp'.role = "ADMIN"
       /\ (\E a \in DOMAIN author_rows : a \notin DOMAIN author_rows')
            => resp'.role = "ADMIN"
       /\ (\E b \in DOMAIN book_rows : b \notin DOMAIN book_rows')
            => resp'.role = "ADMIN"
       /\ (author_rows' # author_rows \/ book_rows' # book_rows)
            => resp'.role \in {"ADMIN", "MODERATOR"}
       /\ resp'.role = "USER" => (resp'.status = 403 /\ UNCHANGED rowvars)
       /\ (resp'.role = "MODERATOR" /\ (resp'.type = "Category" \/ resp'.op = "DELETE"))
            => (resp'.status = 403 /\ UNCHANGED rowvars)]_vars

\* a USER asked for the deletion of a book that exists and was refused, and
\* the book has the stock a MODERATOR or an ADMIN gave it
C16_Witness ==
  /\ resp.op = "DELETE" /\ resp.type = "Book" /\ resp.role = "USER"
  /\ resp.status = 403
  /\ resp.id \in DOMAIN book_rows /\ book_rows[resp.id].stock_quantity = RoleStock

\* C17: a registration or a profile update by a caller who is no ADMIN gives
\* no user a role other than USER and changes the role of no user: the user
\* it registers has role USER whatever role is asked for; and a profile
\* update, by any caller, changes neither a role nor a username.
C17_NoRoleFromRegistrationOrProfile ==
  [][(/\ resp = Pending /\ resp' # Pending
      /\ resp'.type \in {"RegisterView", "UserProfileView"})
       => /\ (resp'.caller = None \/ users[resp'.caller].role # "ADMIN")
               => /\ \A u \in DOMAIN users' \ DOMAIN users : users'[u].role = "USER"
                  /\ \A u \in DOMAIN users : users'[u].role = users[u].role
          /\ \A u \in DOMAIN users : users'[u].username = users[u].username
          /\ resp'.type = "UserProfileView"
               => /\ DOMAIN users' = DOMAIN users
                  /\ \A u \in DOMAIN users : users'[u].role = users[u].role]_vars

\* a caller without credentials has registered a user asking for the role
\* ADMIN, and the user has the role USER
C17_Witness ==
  /\ resp # Pending /\ resp.type = "RegisterView" /\ resp.status = 201
  /\ resp.caller = None
  /\ resp.data.role = Some("ADMIN")
  /\ users[resp.object].role = "USER"

\* C18: a request of UserProfileView by a caller who is no ADMIN serves and
\* writes the caller's own user, with or without a user_id in the URL; the
\* user of another id is reached by an ADMIN who gives that id only.
C18_ProfileOfCallerOnly ==
  [][(/\ resp = Pending /\ resp' # Pending
      /\ resp'.type = "UserProfileView" /\ resp'.caller # None)
       => LET caller == resp'.caller IN
          /\ users[caller].role # "ADMIN"
               => /\ resp'.status = 200 /\ resp'.object = caller
                  /\ resp'.body = [username |-> users[caller].username,
                                   role |-> users[caller].role]
                  /\ \A u \in DOMAIN users \ {caller} : users'[u] = users[u]
          /\ resp'.object \notin {None, caller}
               => /\ users[caller].role = "ADMIN"
                  /\ resp'.data.user_id = resp'.object
          /\ \A u \in DOMAIN users \ {resp'.object} : users'[u] = users[u]]_vars

\* a USER has sent a PATCH to the URL of another user, and the bio written
\* is the caller's own
C18_Witness ==
  /\ resp # Pending /\ resp.type = "UserProfileView" /\ resp.op = "PATCH"
  /\ resp.caller # None /\ users[resp.caller].role = "USER"
  /\ resp.data.user_id \in DOMAIN users \ {resp.caller}
  /\ resp.status = 200 /\ resp.object = resp.caller
  /\ users[resp.caller].bio = "hello" /\ users[resp.data.user_id].bio = ""

\* C19: an answer of a user endpoint with status 400 or 401 has success =
\* false and a field 'errors'.
C19_ErrorEnvelope ==
  (/\ resp # Pending
   /\ resp.type \in {"RegisterView", "LoginView", "UserProfileView", "ChangePasswordView"}
   /\ resp.status \in {400, 401})
    => /\ "success" \in DOMAIN resp.body /\ "errors" \in DOMAIN resp.body
       /\ resp.body.success = FALSE

\* C20: a change-password request with an old_password that is not the
\* caller's password, or with new_password and new_password2 that differ, is
\* answered 400 and changes no password; a password changes only by a request
\* with the right old_password and equal new passwords, and then it is the
\* caller's password and becomes new_password.
C20_ChangePasswordOnlyWhenCorrect ==
  [][(/\ resp = Pending /\ resp' # Pending
      /\ resp'.type = "ChangePasswordView" /\ resp'.caller # None
      /\ resp'.data.old_password # Missing)
       => LET caller == resp'.caller
              data == resp'.data
              correct == /\ The(data.old_password) = users[caller].password
                         /\ data.new_password = data.new_password2
          IN /\ ~correct => (resp'.status = 400 /\ users' = users)
             /\ users' # users
                  => /\ correct
                     /\ users' = [users EXCEPT
                                    ![caller].password = The(data.new_password)]]_vars

\* the integer that a value sent as stock_quantity gives: the value itself
\* if it is an integer, the number a string writes in decimal digits with an
\* optional sign and surrounding spaces; nothing for any other value
SentInteger(v) ==
  IF "int" \in DOMAIN v THEN Some(v.int)
  ELSE IF "str" \notin DOMAIN v THEN Missing
  ELSE LET s == SelectSeq(v.str, LAMBDA ch : ch # " ")
           body == IF s # <<>> /\ s[1] \in {"-", "+"} THEN Tail(s) ELSE s
       IN IF body = <<>> \/ \E i \in 1..Len(body) : body[i] \notin
                 {"0", "1", "2", "3", "4", "5", "6", "7", "8", "9"}
          THEN Missing
          ELSE Some(IF s[1] = "-" THEN 0 - digits_value(body) ELSE digits_value(body))

\* C21: update_book_stock, for a caller it permits, answers 404 for an id
\* that no book has; 400 if stock_quantity is left out, is no integer or is
\* negative; and changes no book in these cases. In every other case it
\* answers 200 and sets the stock_quantity of that book to the value given,
\* changing no other column and no other book.
C21_StockUpdateOutcome ==
  [][(/\ resp = Pending /\ resp' # Pending
      /\ resp'.op = "update_book_stock"
      /\ resp'.role \in {"ADMIN", "MODERATOR"})
       => LET sent == resp'.data.stock_quantity
              given == IF sent = Missing THEN Missing ELSE SentInteger(The(sent))
          IN IF resp'.id \notin DOMAIN book_rows
             THEN resp'.status = 404 /\ book_rows' = book_rows
             ELSE IF given = Missing \/ The(given) < 0
             THEN resp'.status = 400 /\ book_rows' = book_rows
             ELSE /\ resp'.status = 200
                  /\ book_rows' = [book_rows EXCEPT
                                     ![resp'.id].stock_quantity = The(given)]]_vars

\* C22: a book deletion (Book.delete, and Book.bulk_delete for each book of
\* its queryset) first deletes the LogEntry rows of the book, then clears its
\* author links, and then removes the Book row: a step that removes a Book
\* row finds no LogEntry row and no author link of that book; a step of the
\* deletion that clears the links of a book finds no LogEntry row of it; and
\* a step that deletes the LogEntry rows of a book finds its links and its
\* row as they were when the deletion was entered.
C22_DeletionStepOrder ==
  [][op.kind \in {"Book.delete", "Book.bulk_delete"} /\ op' # Idle
       => /\ \A b \in DOMAIN books \ DOMAIN books' :
               /\ LogCount(log, "Book", b) = 0
               /\ {l \in book_authors : l[1] = b} = {}
          /\ \A b \in DOMAIN books :
               ({l \in book_authors : l[1] = b} # {l \in book_authors' : l[1] = b})
                 => /\ LogCount(log, "Book", b) = 0
                    /\ b \in DOMAIN books'
          /\ \A b \in DOMAIN books :
               LogCount(log', "Book", b) # LogCount(log, "Book", b)
                 => /\ {l \in book_authors : l[1] = b}
                         = {l \in op.savepoint.book_authors : l[1] = b}
                    /\ book_authors' = book_authors
                    /\ books' = books /\ books = op.savepoint.books]_vars

\* Book.bulk_delete of two books is about to remove the Book rows: both are
\* still there, one had LogEntry rows and both had author links when the
\* operation was entered, and none of these is left
C22_Witness ==
  /\ op.kind = "Book.bulk_delete" /\ op.pc = "queryset_delete"
  /\ Cardinality(op.queryset) = 2
  /\ op.queryset \subseteq DOMAIN books
  /\ \E b \in op.queryset : LogCount(op.savepoint.log, "Book", b) > 0
  /\ \A b \in op.queryset :
       /\ {l \in op.savepoint.book_authors : l[1] = b} # {}
       /\ {l \in book_authors : l[1] = b} = {}
       /\ LogCount(log, "Book", b) = 0

\* the lists that name each element of S once
Orders(S) ==
  {f \in [1..Cardinality(S) -> S] : \A i, j \in 1..Cardinality(S) : f[i] = f[j] => i = j}

SameButBooks(S, t, u) ==
  /\ u.categories = t.categories
  /\ u.authors = t.authors
  /\ \A b \in DOMAIN t.books \ S : b \in DOMAIN u.books /\ u.books[b] = t.books[b]
  /\ DOMAIN u.books \subseteq DOMAIN t.books
  /\ {l \in u.book_authors : l[1] \notin S} = {l \in t.book_authors : l[1] \notin S}
  /\ \A k \in LogKeys :
       (k[1] # "Book" \/ k[2] \notin S) => LogCount(u.log, k[1], k[2]) = LogCount(t.log, k[1], k[2])

\* C24: the deletion of a book B, by Book.delete or as one of the books of
\* Book.bulk_delete, changes no other book, no Author row, no Category row,
\* no author link of another book and no LogEntry row that is not keyed by
\* (Book, B): the LogEntry rows of a category or an author with the same id
\* as B stay. This holds at each step of the deletion and when it commits.
C24_BookDeleteFrame ==
  [][/\ (op.kind = "Book.delete" /\ op'.kind \in {"Book.delete", "idle"})
          => /\ SameButBooks({op.pk}, op.savepoint, Tables')
             /\ UNCHANGED <<rowvars, users>>
     /\ (op.kind = "Book.bulk_delete" /\ op'.kind \in {"Book.bulk_delete", "idle"})
          => /\ SameButBooks(op.queryset, op.savepoint, Tables')
             /\ UNCHANGED <<rowvars, users>>]_vars

\* Book.delete has removed a book that had LogEntry rows, while a category
\* or author with the same id has a LogEntry row, which is still there, and
\* another book has its author links
C24_Witness ==
  /\ op.kind = "Book.delete" /\ op.pc = "exit"
  /\ op.pk \notin DOMAIN books
  /\ LogCount(op.savepoint.log, "Book", op.pk) > 0
  /\ LogCount(log, "Book", op.pk) = 0
  /\ \E t \in {"Category", "Author"} : LogCount(log, t, op.pk) > 0
  /\ \E b \in DOMAIN books : AuthorsOfBook(b) # {}
====
